---------------------------- MODULE Spec2Model ----------------------------
(***************************************************************************)
(* AI Fashion Studio: the reducer of App.tsx (appReducer), the handlers    *)
(* that dispatch to it (handleFileChange, processImages, regenerateImage,  *)
(* the reset buttons), the promise chains they start (generation client,   *)
(* then watermark), and the parts of the rendering that decide which       *)
(* handler the user can reach.                                             *)
(*                                                                         *)
(* Strings that the code takes apart or puts together (data URLs, error    *)
(* messages, the backend's text) are sequences of tokens, so that a        *)
(* message "containing" a reason is a subsequence test.                    *)
(***************************************************************************)
EXTENDS Integers, Sequences, FiniteSets, TLC

(***************************************************************************)
(* Bound of the model: how much happens to the application in one run:     *)
(* the user's actions (files picked, clicks on "Generate Style", on a      *)
(* card's regenerate or download button, on "Download All", on "Change     *)
(* Photos" / "Start Over") and the chains that end in an unusual failure   *)
(* (anything but a watermarked image or a refusal with a text).  What the  *)
(* application does in answer (file reads ending, animations ending,       *)
(* requests answered, timers firing) is not bounded.                       *)
(***************************************************************************)
MaxUserActions == 5

(***************************************************************************)
(* Values                                                                  *)
(***************************************************************************)
\* sourceModelImage / sourceClothingImage before an upload (null)
NULL == <<>>

\* data URLs FileReader.readAsDataURL can produce: an image, and a file that
\* is not an image (accept="image/*" is only a hint to the picker)
DataUrls ==
    { <<"data:", "image/", "png", ";base64,", "A">>,
      <<"data:", "text/", "plain", ";base64,", "T">> }

\* POSE_PROMPTS, abbreviated; JS indices 0..3
POSE_PROMPTS == << "relaxed standing", "catwalk", "studio chair", "close-up" >>

PoseIndices == 0 .. (Len(POSE_PROMPTS) - 1)

\* GeneratedImage values, and the two ways an array position can hold none
Pending == [status |-> "pending"]

DoneResult(url) == [status |-> "done", url |-> url]

ErrorResult(error) == [status |-> "error", error |-> error]

\* a position of a sparse array that was never assigned
Hole == [empty |-> TRUE]

\* a position holding the value undefined (a hole after a spread copy)
Undefined == [undefined |-> TRUE]

\* image?.status
StatusOf(image) == IF image \in {Hole, Undefined} THEN "undefined" ELSE image.status

\* imageResults[index]?.status for a JS index
StatusAt(results, index) ==
    IF index + 1 <= Len(results) THEN StatusOf(results[index + 1]) ELSE "undefined"


(***************************************************************************)
(* Remote generation client (services/geminiService) and watermark         *)
(***************************************************************************)
\* a match that accepts every media type: /^data:(.*?);base64,(.*)$/
AnyDataUrlMatches(dataUrl) ==
    /\ Len(dataUrl) = 5
    /\ dataUrl[1] = "data:"
    /\ dataUrl[4] = ";base64,"

\* fileToGenerativePart: the match of /^data:(image\/.*?);base64,(.*)$/
DataUrlMatches(dataUrl) ==
    /\ Len(dataUrl) = 5
    /\ dataUrl[1] = "data:"
    /\ dataUrl[2] = "image/"
    /\ dataUrl[4] = ";base64,"

\* String.prototype.trim on a token sequence (" " is a whitespace token)
RECURSIVE TrimStart(_)
TrimStart(text) ==
    IF text # <<>> /\ Head(text) = " " THEN TrimStart(Tail(text)) ELSE text

RECURSIVE TrimEnd(_)
TrimEnd(text) ==
    IF text # <<>> /\ text[Len(text)] = " "
    THEN TrimEnd(SubSeq(text, 1, Len(text) - 1))
    ELSE text

Trim(text) == TrimEnd(TrimStart(text))

\* what ai.models.generateContent can do with a request (the backend is
\* outside the repository): an image part, no image part and a text, a
\* rejection with an Error, a rejection with a value that is no Error
BackendResponses ==
    { [kind |-> "image", mimeType |-> "jpeg"],
      [kind |-> "text", text |-> <<" ", "no image returned", " ">>],
      [kind |-> "text", text |-> <<>>],
      [kind |-> "reject", isError |-> TRUE, message |-> <<"fetch failed">>],
      [kind |-> "reject", isError |-> FALSE] }

\* what the canvas does in addWatermark
WatermarkOutcomes == {"ok", "no context", "load error"}

\* new Error(message)
Error(message) == [isError |-> TRUE, message |-> message]

\* the catch of createVirtualTryOnImage: an Error is wrapped in a new Error,
\* anything else is replaced by one
WrapClientError(error) ==
    IF error.isError
    THEN Error(<<"Failed to contact AI service: ">> \o error.message)
    ELSE Error(<<"An unknown error occurred during image generation.">>)

\* createVirtualTryOnImage before its await: both sources are parsed, and a
\* failure rejects without a request
InvalidSourceError ==
    WrapClientError(Error(<<"Invalid data URL format. Please use a different image.">>))

SourcesValid(modelImage, clothingImage) ==
    DataUrlMatches(modelImage) /\ DataUrlMatches(clothingImage)

\* createVirtualTryOnImage after its await: [ok, value] where value is the
\* data URL returned, or what is thrown
ClientResult(modelImage, clothingImage, poseDescription, response) ==
    IF response.kind = "image"
    THEN [ok |-> TRUE,
          value |-> <<"data:", "image/", response.mimeType, ";base64,",
                      modelImage[5], clothingImage[5], poseDescription>>]
    ELSE IF response.kind = "text"
    THEN LET textResponse ==
                 IF Trim(response.text) # <<>> THEN Trim(response.text)
                 ELSE <<"No text response.">>
         IN  [ok |-> FALSE,
              value |-> WrapClientError(Error(
                  <<"The AI could not generate an image. Your request might be unsuitable. AI Response: \"">>
                  \o textResponse \o <<"\"">>))]
    ELSE [ok |-> FALSE, value |-> WrapClientError(response)]

\* addWatermark: the image redrawn with the mark, as a PNG data URL
AddWatermark(imageUrl, outcome) ==
    IF outcome = "ok"
    THEN [ok |-> TRUE,
          value |-> <<"data:", "image/", "png", ";base64,">>
                    \o SubSeq(imageUrl, 5, Len(imageUrl)) \o <<"MA">>]
    ELSE IF outcome = "no context"
    THEN [ok |-> FALSE, value |-> Error(<<"Could not get canvas context">>)]
    ELSE [ok |-> FALSE, value |-> Error(<<"Failed to load image for watermarking">>)]

\* a catch that drops what was thrown and reports the fallback text only
UnknownErrorMessage(err) == <<"An unknown error occurred.">>

\* err instanceof Error ? err.message : "An unknown error occurred."
CaughtMessage(err) ==
    IF err.isError THEN err.message ELSE <<"An unknown error occurred.">>

\* a chain that reports success whatever the client and the canvas did
ChainResultSwallowingFailure(modelImage, clothingImage, index, response, watermark) ==
    DoneResult(<<"data:", "image/", "png", ";base64,",
                 modelImage[5], clothingImage[5], POSE_PROMPTS[index + 1], "MA">>)

\* one chain: createVirtualTryOnImage, then addWatermark, then the result
\* the then/catch (processImages) or the try/catch (regenerateImage) writes
ChainResult(modelImage, clothingImage, index, response, watermark) ==
    LET base == ClientResult(modelImage, clothingImage,
                             POSE_PROMPTS[index + 1], response)
        marked == AddWatermark(base.value, watermark)
    IN  IF ~base.ok THEN ErrorResult(CaughtMessage(base.value))
        ELSE IF ~marked.ok THEN ErrorResult(CaughtMessage(marked.value))
        ELSE DoneResult(marked.value)

(***************************************************************************)
(* The reducer                                                             *)
(***************************************************************************)
initialState ==
    [appStatus |-> "idle",
     sourceModelImage |-> NULL,
     sourceClothingImage |-> NULL,
     imageResults |-> <<>>]

\* [...state.imageResults]: a copy in which every hole is undefined
Spread(results) ==
    [k \in 1 .. Len(results) |-> IF results[k] = Hole THEN Undefined ELSE results[k]]

\* results kept in the order of their arrival: the first position that is
\* still pending takes the result, whatever its index
AssignAtFirstPending(results, index, result) ==
    LET pending == {k \in 1 .. Len(results) : results[k] = Pending}
    IN  IF pending = {} THEN results
        ELSE [results EXCEPT
                 ![CHOOSE k \in pending : \A other \in pending : k <= other] = result]

\* newResults[index] = result, which extends the array with holes
AssignAt(results, index, result) ==
    IF index + 1 <= Len(results)
    THEN [results EXCEPT ![index + 1] = result]
    ELSE results \o [k \in 1 .. (index - Len(results)) |-> Hole] \o <<result>>

\* state.imageResults.every(img => img.status === 'done' || img.status ===
\* 'error'): holes are skipped, undefined.status throws a TypeError, the
\* first false ends the walk
RECURSIVE EveryDoneOrError(_)
EveryDoneOrError(results) ==
    IF results = <<>> THEN "true"
    ELSE IF Head(results) = Hole THEN EveryDoneOrError(Tail(results))
    ELSE IF Head(results) = Undefined THEN "TypeError"
    ELSE IF Head(results).status \in {"done", "error"}
         THEN EveryDoneOrError(Tail(results))
    ELSE "false"

\* UPLOAD_IMAGE that writes the model image whichever input the file came from
UploadImageIntoModel(state, index, dataUrl) ==
    LET newState == [state EXCEPT !.sourceModelImage = dataUrl]
    IN  IF newState.sourceModelImage # NULL /\ newState.sourceClothingImage # NULL
        THEN [newState EXCEPT !.appStatus = "sources_ready", !.imageResults = <<>>]
        ELSE newState

\* an upload that sets the phase and keeps the results of the round before
UploadImageKeepingResults(state, index, dataUrl) ==
    LET newState ==
            [state EXCEPT
               !.sourceModelImage = IF index = 0 THEN dataUrl ELSE @,
               !.sourceClothingImage = IF index = 1 THEN dataUrl ELSE @]
    IN  IF newState.sourceModelImage # NULL /\ newState.sourceClothingImage # NULL
        THEN [newState EXCEPT !.appStatus = "sources_ready"]
        ELSE newState

UploadImage(state, index, dataUrl) ==
    LET newState ==
            [state EXCEPT
               !.sourceModelImage = IF index = 0 THEN dataUrl ELSE @,
               !.sourceClothingImage = IF index = 1 THEN dataUrl ELSE @]
    IN  IF newState.sourceModelImage # NULL /\ newState.sourceClothingImage # NULL
        THEN [newState EXCEPT !.appStatus = "sources_ready", !.imageResults = <<>>]
        ELSE newState

\* START_PROCESSING that sets the phase and keeps the results it finds
StartProcessingKeepingResults(state) ==
    [state EXCEPT !.appStatus = "processing"]

StartProcessing(state) ==
    [state EXCEPT !.appStatus = "processing",
                  !.imageResults = [k \in 1 .. Len(POSE_PROMPTS) |-> Pending]]

UpdateResult(state, index, result) ==
    [state EXCEPT !.imageResults = AssignAt(Spread(@), index, result)]

FinishProcessing(state) ==
    IF EveryDoneOrError(state.imageResults) = "true"
    THEN [state EXCEPT !.appStatus = "results_ready"]
    ELSE state

\* appReducer: [thrown, state]; a reducer that throws leaves no new state
appReducer(state, action) ==
    IF action.type = "UPLOAD_IMAGE"
    THEN [thrown |-> FALSE, state |-> UploadImage(state, action.index, action.dataUrl)]
    ELSE IF action.type = "START_PROCESSING"
    THEN [thrown |-> FALSE, state |-> StartProcessing(state)]
    ELSE IF action.type = "UPDATE_RESULT"
    THEN [thrown |-> FALSE, state |-> UpdateResult(state, action.index, action.result)]
    ELSE IF action.type = "FINISH_PROCESSING"
    THEN [thrown |-> EveryDoneOrError(state.imageResults) = "TypeError",
          state |-> FinishProcessing(state)]
    ELSE IF action.type = "RESET"
    THEN [thrown |-> FALSE, state |-> initialState]
    ELSE [thrown |-> FALSE, state |-> state]

\* the actions dispatched in one task, reduced in order
RECURSIVE Reduce(_, _)
Reduce(state, actions) ==
    IF actions = <<>> THEN [thrown |-> FALSE, state |-> state]
    ELSE LET r == appReducer(state, Head(actions))
         IN  IF r.thrown THEN r ELSE Reduce(r.state, Tail(actions))

\* rendering: ResultsDisplay maps over imageResults and reads image.status;
\* map skips holes, and undefined.status throws
RenderThrows(state) ==
    /\ state.appStatus \in {"processing", "results_ready"}
    /\ \E k \in 1 .. Len(state.imageResults) : state.imageResults[k] = Undefined

(***************************************************************************)
(* The application: useReducer's state, and what is pending around it      *)
(***************************************************************************)
VARIABLES
    appStatus,            \* 'idle' | 'sources_ready' | 'processing' | 'results_ready'
    sourceModelImage,     \* a data URL, or NULL
    sourceClothingImage,  \* a data URL, or NULL
    imageResults,         \* the array of GeneratedImage
    readers,              \* FileReaders reading: [id, index, dataUrl]
    scheduled,            \* regenerateImage calls waiting for the animation:
                          \* [id, index, modelImage, clothingImage, status],
                          \* the values the callback closed over
    inFlight,             \* chains that have not written their result:
                          \* [batch, id, index, modelImage, clothingImage,
                          \* answer], answer being NoAnswer while the request
                          \* awaits the backend and the image response while
                          \* the Image of addWatermark is loading
    crashed,              \* an uncaught TypeError unmounted the application
    stub,                 \* the backend of a test: the outcome of the chain
                          \* of each pose, or NoStub for the real backend
    lastEvent,            \* the handler that ran last (history)
    timers,               \* setTimeout callbacks of downloadAllImages waiting:
                          \* [click, index, delay, href]
    downloads,            \* the link.click() calls of the task that ran
                          \* last: [click, index, download, href]
    clicks,               \* how many times a download handler has run
    used                  \* how often the user has acted and chains have
                          \* failed unusually (bounds the run)

vars ==
    << appStatus, sourceModelImage, sourceClothingImage, imageResults,
       readers, scheduled, inFlight, crashed, stub, lastEvent, timers,
       downloads, clicks, used >>

\* what only the download handlers and their timers change; a task that is
\* none of them clicks no link
downloadVars == << timers, clicks >>

AppState ==
    [appStatus |-> appStatus,
     sourceModelImage |-> sourceModelImage,
     sourceClothingImage |-> sourceClothingImage,
     imageResults |-> imageResults]

\* the smallest number from 1 that no record of the set uses as its id
FreeId(records) ==
    CHOOSE i \in 1 .. (Cardinality(records) + 1) :
        /\ \A r \in records : r.id # i
        /\ \A j \in 1 .. (i - 1) : \E r \in records : r.id = j

\* what has been spent of the bound: the user's actions and the chains that
\* ended in an unusual failure (neither a watermarked image nor a refusal
\* with a text; not counted when a stub fixes how the chains end)
UserActions ==
    used.uploads + used.generates + used.regenerates + used.resets + used.failures

NoStub == << >>

\* dispatch of the actions of one task: the reducer runs on each in order,
\* then the application renders; a TypeError in either ends the application
Dispatch(actions) ==
    LET r == Reduce(AppState, actions)
    IN  /\ appStatus' = r.state.appStatus
        /\ sourceModelImage' = r.state.sourceModelImage
        /\ sourceClothingImage' = r.state.sourceClothingImage
        /\ imageResults' = r.state.imageResults
        /\ crashed' = (r.thrown \/ RenderThrows(r.state))

UpdateResultAction(index, result) ==
    [type |-> "UPDATE_RESULT", index |-> index, result |-> result]

\* which of the two interfaces App renders
UploadInterfaceShown == appStatus \in {"idle", "sources_ready"}

ResultsDisplayShown == appStatus \in {"processing", "results_ready"}

\* the regenerate button of card index is rendered: ResultsDisplay maps over
\* imageResults (map skips holes) and ImageFrame shows the button for a
\* status that is done or error
RegenerateButtonShown(index) ==
    /\ ResultsDisplayShown
    /\ index + 1 <= Len(imageResults)
    /\ imageResults[index + 1] # Hole
    /\ StatusAt(imageResults, index) \in {"done", "error"}

\* a button that dispatches RESET is rendered: "Change Photos" with
\* sources_ready, "Start Over" with results_ready
ResetButtonShown == appStatus \in {"sources_ready", "results_ready"}

Init ==
    /\ appStatus = initialState.appStatus
    /\ sourceModelImage = initialState.sourceModelImage
    /\ sourceClothingImage = initialState.sourceClothingImage
    /\ imageResults = initialState.imageResults
    /\ readers = {}
    /\ scheduled = {}
    /\ inFlight = {}
    /\ crashed = FALSE
    /\ stub = NoStub
    /\ lastEvent = [type |-> "init"]
    /\ used = [uploads |-> 0, generates |-> 0, regenerates |-> 0, resets |-> 0,
               failures |-> 0]
    /\ timers = {}
    /\ downloads = << >>
    /\ clicks = 0

\* handleFileChange: the user picks a file in one of the two inputs of
\* UploadInterface, and a FileReader starts reading it
ChooseFile(index, dataUrl) ==
    /\ ~crashed
    /\ UploadInterfaceShown
    /\ UserActions < MaxUserActions
    /\ used' = [used EXCEPT !.uploads = @ + 1]
    /\ readers' = readers \cup
           {[id |-> FreeId(readers), index |-> index, dataUrl |-> dataUrl]}
    /\ UNCHANGED << appStatus, sourceModelImage, sourceClothingImage, imageResults,
                    scheduled, inFlight, crashed, stub, lastEvent >>
    /\ UNCHANGED downloadVars
    /\ downloads' = << >>

\* reader.onload: UPLOAD_IMAGE is dispatched, whatever the state is by then
ReaderLoad(reader) ==
    /\ ~crashed
    /\ reader \in readers
    /\ Dispatch(<< [type |-> "UPLOAD_IMAGE", index |-> reader.index,
                    dataUrl |-> reader.dataUrl] >>)
    /\ readers' = readers \ {reader}
    /\ lastEvent' = [type |-> "upload", from |-> appStatus]
    /\ UNCHANGED << scheduled, inFlight, stub, used >>
    /\ UNCHANGED downloadVars
    /\ downloads' = << >>

\* a chain whose request the backend has not answered yet
NoAnswer == [kind |-> "none"]

\* the chains of one processImages call
BatchChains(batch) ==
    { [batch |-> batch, id |-> 0, index |-> index,
       modelImage |-> sourceModelImage, clothingImage |-> sourceClothingImage,
       answer |-> NoAnswer] :
      index \in PoseIndices }

\* the smallest batch number no chain in flight carries
FreeBatch ==
    CHOOSE b \in 1 .. (Cardinality(inFlight) + 1) :
        /\ \A c \in inFlight : c.batch # b
        /\ \A a \in 1 .. (b - 1) : \E c \in inFlight : c.batch = a

\* the UPDATE_RESULT of every chain whose client rejects before its request
InvalidSourceUpdates ==
    [k \in 1 .. Len(POSE_PROMPTS) |->
        UpdateResultAction(k - 1, ErrorResult(CaughtMessage(InvalidSourceError)))]

\* one call of processImages.  With a source missing it returns at once.
\* With well-formed sources the four chains are left awaiting the backend;
\* otherwise every chain rejects at once and the call runs to its end.
processImagesCall ==
    /\ ~crashed
    /\ UserActions < MaxUserActions
    /\ used' = [used EXCEPT !.generates = @ + 1]
    /\ IF sourceModelImage = NULL \/ sourceClothingImage = NULL
       THEN /\ UNCHANGED << appStatus, sourceModelImage, sourceClothingImage,
                            imageResults, inFlight, crashed >>
            /\ lastEvent' = [type |-> "generate", finished |-> FALSE]
       ELSE IF SourcesValid(sourceModelImage, sourceClothingImage)
       THEN /\ Dispatch(<< [type |-> "START_PROCESSING"] >>)
            /\ inFlight' = inFlight \cup BatchChains(FreeBatch)
            /\ lastEvent' = [type |-> "generate", finished |-> FALSE]
       ELSE /\ Dispatch(<< [type |-> "START_PROCESSING"] >>
                        \o InvalidSourceUpdates
                        \o << [type |-> "FINISH_PROCESSING"] >>)
            /\ inFlight' = inFlight
            /\ lastEvent' = [type |-> "generate", finished |-> TRUE]
    /\ UNCHANGED << readers, scheduled, stub >>
    /\ UNCHANGED downloadVars
    /\ downloads' = << >>

\* processImages, from the "Generate Style" button (shown when sources_ready)
processImages ==
    /\ appStatus = "sources_ready"
    /\ processImagesCall

\* handleRegenerate of a card: the button is rendered for a slot that is done
\* or error; the animation starts and onRegenerate runs when it ends, with
\* the values the rendered callback closed over
RegenerateClick(index) ==
    /\ ~crashed
    /\ RegenerateButtonShown(index)
    /\ UserActions < MaxUserActions
    /\ used' = [used EXCEPT !.regenerates = @ + 1]
    /\ scheduled' = scheduled \cup
           {[id |-> FreeId(scheduled), index |-> index,
             modelImage |-> sourceModelImage, clothingImage |-> sourceClothingImage,
             status |-> StatusAt(imageResults, index)]}
    /\ UNCHANGED << appStatus, sourceModelImage, sourceClothingImage, imageResults,
                    readers, inFlight, crashed, stub, lastEvent >>
    /\ UNCHANGED downloadVars
    /\ downloads' = << >>

RegenChains == {c \in inFlight : c.batch = 0}

\* regenerateImage(index), run when the animation has ended
regenerateImage(call) ==
    /\ ~crashed
    /\ call \in scheduled
    /\ scheduled' = scheduled \ {call}
    /\ IF \/ call.modelImage = NULL
          \/ call.clothingImage = NULL
          \/ call.status = "pending"
       THEN /\ UNCHANGED << appStatus, sourceModelImage, sourceClothingImage,
                            imageResults, inFlight, crashed >>
            /\ lastEvent' = [type |-> "regenerate", accepted |-> FALSE]
       ELSE /\ IF SourcesValid(call.modelImage, call.clothingImage)
               THEN /\ Dispatch(<< UpdateResultAction(call.index, Pending) >>)
                    /\ inFlight' = inFlight \cup
                          {[batch |-> 0, id |-> FreeId(RegenChains),
                            index |-> call.index, modelImage |-> call.modelImage,
                            clothingImage |-> call.clothingImage,
                            answer |-> NoAnswer]}
               ELSE /\ Dispatch(<< UpdateResultAction(call.index, Pending),
                                   UpdateResultAction(call.index,
                                       ErrorResult(CaughtMessage(InvalidSourceError))) >>)
                    /\ inFlight' = inFlight
            /\ lastEvent' = [type |-> "regenerate", accepted |-> TRUE]
    /\ UNCHANGED << readers, stub, used >>
    /\ UNCHANGED downloadVars
    /\ downloads' = << >>

\* how one chain can end: the backend's response and, when it holds an
\* image, what the canvas does
ChainOutcomes ==
    { [response |-> r, watermark |-> w] :
        r \in {x \in BackendResponses : x.kind = "image"}, w \in WatermarkOutcomes }
    \cup
    { [response |-> r, watermark |-> "not run"] :
        r \in {x \in BackendResponses : x.kind # "image"} }

\* the two usual ends of a chain: a watermarked image, and a refusal that
\* carries a text
SuccessOrRefusal ==
    { o \in ChainOutcomes :
        \/ o.response.kind = "image" /\ o.watermark = "ok"
        \/ o.response.kind = "text" /\ o.response.text # <<>> }

\* the outcome is one this chain can end with in its next task: a request
\* that awaits the backend ends when the backend returns no image, a chain
\* whose Image is loading ends with what the canvas does
EndsWith(chain, outcome) ==
    IF chain.answer = NoAnswer
    THEN outcome.response.kind # "image"
    ELSE outcome.response = chain.answer

\* the backend answers a request with an image: createVirtualTryOnImage
\* resolves and addWatermark sets img.src; nothing is dispatched until the
\* Image has loaded or failed, in a later task
ImageReturned(chain, response) ==
    /\ ~crashed
    /\ chain \in inFlight
    /\ chain.answer = NoAnswer
    /\ response.kind = "image"
    /\ stub # NoStub => response = stub[chain.index + 1].response
    /\ inFlight' = (inFlight \ {chain}) \cup {[chain EXCEPT !.answer = response]}
    /\ UNCHANGED << appStatus, sourceModelImage, sourceClothingImage, imageResults,
                    readers, scheduled, crashed, stub, lastEvent, used >>
    /\ UNCHANGED downloadVars
    /\ downloads' = << >>

\* whether the chain is the last of its processImages call to settle
LastOfBatch(chain) ==
    /\ chain.batch # 0
    /\ \A other \in inFlight \ {chain} : other.batch # chain.batch

\* a chain that sends its request once more when the backend returns no image
SettleWithRetry(chain, outcome) ==
    /\ ~crashed
    /\ chain \in inFlight
    /\ EndsWith(chain, outcome)
    /\ stub # NoStub => outcome = stub[chain.index + 1]
    /\ (stub = NoStub /\ outcome \notin SuccessOrRefusal)
          => UserActions < MaxUserActions
    /\ IF outcome.response.kind # "image"
       THEN /\ inFlight' = (inFlight \ {chain}) \cup {[chain EXCEPT !.id = @ + 10]}
            /\ UNCHANGED << appStatus, sourceModelImage, sourceClothingImage,
                            imageResults, crashed >>
       ELSE /\ Dispatch(<< UpdateResultAction(chain.index,
                               ChainResult(chain.modelImage, chain.clothingImage,
                                           chain.index, outcome.response,
                                           outcome.watermark)) >>
                        \o IF LastOfBatch(chain) THEN << [type |-> "FINISH_PROCESSING"] >>
                           ELSE << >>)
            /\ inFlight' = inFlight \ {chain}
    /\ lastEvent' = [type |-> "settle", finished |-> LastOfBatch(chain)]
    /\ used' = IF stub = NoStub /\ outcome \notin SuccessOrRefusal
               THEN [used EXCEPT !.failures = @ + 1]
               ELSE used
    /\ UNCHANGED << readers, scheduled, stub >>
    /\ UNCHANGED downloadVars
    /\ downloads' = << >>

\* a chain settles (the backend returns no image, or the Image of
\* addWatermark loads or fails): its UPDATE_RESULT is dispatched and, when it
\* was the last of a processImages call, Promise.allSettled resolves in the
\* same task and FINISH_PROCESSING follows
Settle(chain, outcome) ==
    /\ ~crashed
    /\ chain \in inFlight
    /\ EndsWith(chain, outcome)
    /\ stub # NoStub => outcome = stub[chain.index + 1]
    /\ (stub = NoStub /\ outcome \notin SuccessOrRefusal)
          => UserActions < MaxUserActions
    /\ Dispatch(<< UpdateResultAction(chain.index,
                       ChainResult(chain.modelImage, chain.clothingImage,
                                   chain.index, outcome.response, outcome.watermark)) >>
                \o IF LastOfBatch(chain) THEN << [type |-> "FINISH_PROCESSING"] >>
                   ELSE << >>)
    /\ inFlight' = inFlight \ {chain}
    /\ lastEvent' = [type |-> "settle", finished |-> LastOfBatch(chain)]
    /\ used' = IF stub = NoStub /\ outcome \notin SuccessOrRefusal
               THEN [used EXCEPT !.failures = @ + 1]
               ELSE used
    /\ UNCHANGED << readers, scheduled, stub >>
    /\ UNCHANGED downloadVars
    /\ downloads' = << >>

\* the "Change Photos" and "Start Over" buttons
Reset ==
    /\ ~crashed
    /\ ResetButtonShown
    /\ UserActions < MaxUserActions
    /\ used' = [used EXCEPT !.resets = @ + 1]
    /\ Dispatch(<< [type |-> "RESET"] >>)
    /\ lastEvent' = [type |-> "reset"]
    /\ UNCHANGED << readers, scheduled, inFlight, stub >>
    /\ UNCHANGED downloadVars
    /\ downloads' = << >>

(***************************************************************************)
(* Downloads: downloadImage, downloadAllImages and the timers they set     *)
(***************************************************************************)
\* the delay between two downloads of a batch, in milliseconds
DownloadDelay == 300

\* `${n}` for the numbers a slot can have
DecimalString(n) == << "0", "1", "2", "3", "4", "5", "6", "7", "8", "9" >>[n + 1]

\* `fashion-studio-pose-${index + 1}.png`
DownloadName(index) == << "fashion-studio-pose-", DecimalString(index + 1), ".png" >>

\* image.url is a non-empty string
HasUrl(image) == "url" \in DOMAIN image /\ image.url # << >>

\* link.href = image.url: undefined is converted to a string
HrefOf(image) == IF "url" \in DOMAIN image THEN image.url ELSE << "undefined" >>

\* a test that lets every settled image through, failed ones included
IsSettledImage(image) == image.status \in {"done", "error"}

\* image.status === 'done' && image.url
IsDownloadable(image) ==
    /\ image.status = "done"
    /\ HasUrl(image)

\* the first position whose element is undefined, where the callback of
\* forEach throws and the loop ends; past the array when there is none
FirstUndefined(results) ==
    IF \E k \in 1 .. Len(results) : results[k] = Undefined
    THEN CHOOSE k \in 1 .. Len(results) :
             /\ results[k] = Undefined
             /\ \A j \in 1 .. (k - 1) : results[j] # Undefined
    ELSE Len(results) + 1

\* the timers one downloadAllImages call sets: forEach visits the positions
\* in ascending order and skips the holes
DownloadAllTimers(results, click) ==
    { [click |-> click, index |-> k - 1, delay |-> (k - 1) * DownloadDelay,
       href |-> HrefOf(results[k])] :
      k \in { j \in 1 .. (FirstUndefined(results) - 1) :
                 results[j] # Hole /\ IsDownloadable(results[j]) } }

\* the "Download All" button is rendered
DownloadAllButtonShown == appStatus = "results_ready"

\* the download button of card index is rendered
DownloadButtonShown(index) ==
    /\ ResultsDisplayShown
    /\ index + 1 <= Len(imageResults)
    /\ imageResults[index + 1] # Hole
    /\ StatusAt(imageResults, index) = "done"

\* the user clicks "Download All"
downloadAllImages ==
    /\ ~crashed
    /\ DownloadAllButtonShown
    /\ UserActions + clicks < MaxUserActions
    /\ clicks' = clicks + 1
    /\ timers' = timers \cup DownloadAllTimers(imageResults, clicks + 1)
    /\ lastEvent' = [type |-> "downloadAll"]
    /\ UNCHANGED << appStatus, sourceModelImage, sourceClothingImage, imageResults,
                    readers, scheduled, inFlight, crashed, stub, used >>
    /\ downloads' = << >>

\* a timer of downloadAllImages fires: the link is clicked.  Timers set by
\* one call fire in the order of their delays, and a timer set earlier with
\* no longer a delay fires first.
TimerFire(timer) ==
    /\ timer \in timers
    /\ \A other \in timers \ {timer} :
          ~(other.click <= timer.click /\ other.delay <= timer.delay)
    /\ timers' = timers \ {timer}
    /\ downloads' = << [click |-> timer.click, index |-> timer.index,
                         download |-> DownloadName(timer.index),
                         href |-> timer.href] >>
    /\ UNCHANGED << appStatus, sourceModelImage, sourceClothingImage, imageResults,
                    readers, scheduled, inFlight, crashed, stub, lastEvent,
                    clicks, used >>

\* one call of downloadImage(index).  On a position that holds no image the
\* read of image.status throws in the handler, and nothing is downloaded.
downloadImageCall(index) ==
    /\ ~crashed
    /\ UserActions + clicks < MaxUserActions
    /\ clicks' = clicks + 1
    /\ downloads' =
          IF /\ index + 1 <= Len(imageResults)
             /\ imageResults[index + 1] \notin {Hole, Undefined}
             /\ IsDownloadable(imageResults[index + 1])
          THEN << [click |-> clicks + 1, index |-> index,
                   download |-> DownloadName(index),
                   href |-> HrefOf(imageResults[index + 1])] >>
          ELSE << >>
    /\ lastEvent' = [type |-> "download", index |-> index]
    /\ UNCHANGED << appStatus, sourceModelImage, sourceClothingImage, imageResults,
                    readers, scheduled, inFlight, crashed, stub, timers, used >>

\* the user clicks the download button of a card
downloadImage(index) == DownloadButtonShown(index) /\ downloadImageCall(index)

Next ==
    \/ \E index \in {0, 1}, dataUrl \in DataUrls : ChooseFile(index, dataUrl)
    \/ \E reader \in readers : ReaderLoad(reader)
    \/ processImages
    \/ \E index \in PoseIndices : RegenerateClick(index)
    \/ \E call \in scheduled : regenerateImage(call)
    \/ \E chain \in inFlight, response \in BackendResponses :
          ImageReturned(chain, response)
    \/ \E chain \in inFlight, outcome \in ChainOutcomes : Settle(chain, outcome)
    \/ Reset
    \/ downloadAllImages
    \/ \E timer \in timers : TimerFire(timer)
    \/ \E index \in PoseIndices : downloadImage(index)

Spec == Init /\ [][Next]_vars

\* The backends of the tests: a stub fixes, for each pose, how its chain
\* ends.  One stub lets every chain succeed, one fails every chain, the
\* others fail the chains of some poses; every way a chain can end occurs.
StubChoices ==
    LET image == [kind |-> "image", mimeType |-> "jpeg"]
        ok == [response |-> image, watermark |-> "ok"]
        noContext == [response |-> image, watermark |-> "no context"]
        loadError == [response |-> image, watermark |-> "load error"]
        refusal ==
            [response |-> [kind |-> "text", text |-> <<" ", "no image returned", " ">>],
             watermark |-> "not run"]
        noText == [response |-> [kind |-> "text", text |-> <<>>], watermark |-> "not run"]
        rejected ==
            [response |-> [kind |-> "reject", isError |-> TRUE,
                           message |-> <<"fetch failed">>],
             watermark |-> "not run"]
        thrown == [response |-> [kind |-> "reject", isError |-> FALSE],
                   watermark |-> "not run"]
    IN  { << ok, ok, ok, ok >>,
          << refusal, ok, ok, ok >>,
          << ok, noText, ok, noContext >>,
          << ok, ok, rejected, thrown >>,
          << loadError, ok, refusal, ok >>,
          << refusal, rejected, loadError, noText >> }

\* The application under test: as constructed, with one of the stubs for
\* its backend
StubbedInit ==
    /\ appStatus = initialState.appStatus
    /\ sourceModelImage = initialState.sourceModelImage
    /\ sourceClothingImage = initialState.sourceClothingImage
    /\ imageResults = initialState.imageResults
    /\ readers = {}
    /\ scheduled = {}
    /\ inFlight = {}
    /\ crashed = FALSE
    /\ stub \in StubChoices
    /\ lastEvent = [type |-> "init"]
    /\ used = [uploads |-> 0, generates |-> 0, regenerates |-> 0, resets |-> 0,
               failures |-> 0]
    /\ timers = {}
    /\ downloads = << >>
    /\ clicks = 0

StubbedSpec == StubbedInit /\ [][Next]_vars

(***************************************************************************)
(* Vocabulary of the properties                                            *)
(***************************************************************************)
\* slot index holds a result that is Done or Error
SlotSettled(index) == StatusAt(imageResults, index) \in {"done", "error"}

SlotPending(index) == StatusAt(imageResults, index) = "pending"

\* the result sequence holds its four results and each is Done or Error
AllFourSettled == \A index \in PoseIndices : SlotSettled(index)

BothSourcesPresent == sourceModelImage # NULL /\ sourceClothingImage # NULL

\* the requests in flight for one slot
RequestsFor(index) == {c \in inFlight : c.index = index}

\* a processImages call has run to its end: its last chain has settled and
\* FINISH_PROCESSING was dispatched (in processImages itself when every
\* chain rejected at once)
GenerateCompleted ==
    lastEvent.type \in {"settle", "generate"} /\ lastEvent.finished

\* the step runs regenerateImage for this scheduled call
RunsRegenerate(call) == call \in scheduled /\ scheduled' = scheduled \ {call}

\* the step is the onload of this reader
RunsUpload(reader) == reader \in readers /\ readers' = readers \ {reader}

\* message holds reason as a run of consecutive tokens
Contains(message, reason) ==
    \E k \in 0 .. (Len(message) - Len(reason)) :
        SubSeq(message, k + 1, k + Len(reason)) = reason

(***************************************************************************)
(* C1: once a generate has completed (its four chains have settled and     *)
(* FINISH_PROCESSING was dispatched), each of the four slots is Done or    *)
(* Error, none is Pending.                                                 *)
(* Violated: a slot that settled early can be regenerated while the other  *)
(* chains are still in flight, and is Pending when the generate completes. *)
(***************************************************************************)
C1_GenerateLeavesNoPending ==
    (~crashed /\ GenerateCompleted) => AllFourSettled

(***************************************************************************)
(* C2: the phase is ResultsReady exactly when the four results are all     *)
(* Done or Error.                                                          *)
(* Violated: a regenerate in ResultsReady makes a slot Pending and leaves  *)
(* the phase.                                                              *)
(***************************************************************************)
C2_ResultsReadyIffAllSettled ==
    ~crashed => (appStatus = "results_ready" <=> AllFourSettled)

(***************************************************************************)
(* C3: the application is never left in Processing with the four slots     *)
(* settled and nothing in flight (from such a state no handler dispatches  *)
(* FINISH_PROCESSING any more: see ProcessingStaysStuck).                  *)
(* Violated: FINISH_PROCESSING of a generate finds a regenerated slot      *)
(* Pending and does nothing; the regenerate then settles.                  *)
(***************************************************************************)
StuckInProcessing ==
    /\ ~crashed
    /\ appStatus = "processing"
    /\ AllFourSettled
    /\ inFlight = {} /\ scheduled = {} /\ readers = {}

C3_ProcessingEndsInResultsReady == ~StuckInProcessing

\* holds: once stuck in Processing, the phase stays Processing
ProcessingStaysStuck ==
    [][(appStatus = "processing" /\ readers = {}
        /\ \A c \in inFlight : c.batch = 0) => appStatus' = "processing"]_vars

(***************************************************************************)
(* C4: regenerateImage for a slot that is Pending changes nothing in the   *)
(* state and issues no request.                                            *)
(* Violated: the guard reads the status the callback closed over, which is *)
(* Done or Error for every call the button can start.                      *)
(***************************************************************************)
C4_RegeneratePendingIsNoOp ==
    [][\A call \in scheduled :
          (RunsRegenerate(call) /\ SlotPending(call.index))
          => /\ UNCHANGED << appStatus, sourceModelImage, sourceClothingImage,
                             imageResults >>
             /\ inFlight' = inFlight]_vars

(***************************************************************************)
(* C5: at most one request is in flight for a slot at any moment.          *)
(* Violated: two clicks on a card's button before the first call has run   *)
(* both pass the guard.                                                    *)
(***************************************************************************)
C5_OneRequestPerSlot ==
    \A index \in PoseIndices : Cardinality(RequestsFor(index)) <= 1

(***************************************************************************)
(* C6: after a reset the state is the initial one (Idle, no source image,  *)
(* no result) and stays so until the next upload (stated for the steps     *)
(* taken with no regenerateImage call waiting, which leaves the requests   *)
(* in flight as the only thing that can still write).                      *)
(* Violated: a request in flight at the reset settles and writes its       *)
(* result.                                                                 *)
(***************************************************************************)
C6_ResetStaysUntilUpload ==
    [][(/\ used.resets > 0
        /\ AppState = initialState
        /\ scheduled = {}
        /\ ~ \E reader \in readers : RunsUpload(reader))
       => /\ appStatus' = initialState.appStatus
          /\ sourceModelImage' = initialState.sourceModelImage
          /\ sourceClothingImage' = initialState.sourceClothingImage
          /\ imageResults' = initialState.imageResults]_vars

(***************************************************************************)
(* C7: partial failure.  In a test of one generate (two files picked, one   *)
(* click on "Generate Style", no regenerate, no reset) with a backend stub *)
(* that makes the chains of a subset of the slots fail, the generate ends  *)
(* with exactly those slots Error, each                                    *)
(* with a message that contains the reason its chain failed with, every    *)
(* other slot Done, and the phase ResultsReady; while it runs, a slot      *)
(* whose chain has settled is already so and the others are Pending.  The  *)
(* same when every chain fails before its request (a source that is no     *)
(* image).                                                                 *)
(***************************************************************************)
\* the run is a test of one generate: two files were picked, "Generate
\* Style" was clicked once, no card was regenerated and no reset clicked
OneGenerate ==
    /\ used.uploads = 2
    /\ used.generates = 1
    /\ used.regenerates = 0
    /\ used.resets = 0

OutcomeFails(outcome) ==
    outcome.response.kind # "image" \/ outcome.watermark # "ok"

\* the reason a failed chain was given: the backend's text without the
\* white space around it, the message of the Error, the canvas failure
FailureReason(outcome) ==
    IF outcome.response.kind = "text"
    THEN Trim(outcome.response.text)
    ELSE IF outcome.response.kind = "reject"
    THEN IF outcome.response.isError THEN outcome.response.message ELSE << >>
    ELSE IF outcome.watermark = "no context"
    THEN << "Could not get canvas context" >>
    ELSE << "Failed to load image for watermarking" >>

SlotIsErrorWith(index, reason) ==
    /\ StatusAt(imageResults, index) = "error"
    /\ Contains(imageResults[index + 1].error, reason)

\* slot index holds what the stub's outcome for it asks for
SlotAsStubbed(index) ==
    IF ~SourcesValid(sourceModelImage, sourceClothingImage)
    THEN SlotIsErrorWith(index,
             << "Invalid data URL format. Please use a different image." >>)
    ELSE IF OutcomeFails(stub[index + 1])
    THEN SlotIsErrorWith(index, FailureReason(stub[index + 1]))
    ELSE StatusAt(imageResults, index) = "done"

C7_PartialFailureIsolated ==
    (~crashed /\ OneGenerate)
    => /\ \A index \in PoseIndices :
             IF RequestsFor(index) # {} THEN SlotPending(index)
             ELSE SlotAsStubbed(index)
       /\ inFlight = {} => appStatus = "results_ready"

\* a generate has completed with one slot failed and another succeeded
C7_Witness ==
    /\ OneGenerate
    /\ lastEvent.type = "settle" /\ lastEvent.finished
    /\ appStatus = "results_ready"
    /\ \E failed, succeeded \in PoseIndices :
          /\ OutcomeFails(stub[failed + 1])
          /\ StatusAt(imageResults, failed) = "error"
          /\ ~OutcomeFails(stub[succeeded + 1])
          /\ StatusAt(imageResults, succeeded) = "done"

(***************************************************************************)
(* C8: the phase is SourcesReady exactly when both source images are       *)
(* present, no request is in flight and the result sequence is empty.      *)
(* Violated: an upload that arrives while a generate is in flight sets     *)
(* SourcesReady with its requests still in flight.                         *)
(***************************************************************************)
C8_SourcesReadyIffNothingStarted ==
    ~crashed =>
        (appStatus = "sources_ready"
         <=> (BothSourcesPresent /\ inFlight = {} /\ imageResults = << >>))

(***************************************************************************)
(* C9: the phase is Processing exactly when a generate has been triggered  *)
(* and at least one result is Pending.                                     *)
(* Violated: a regenerate in ResultsReady makes a slot Pending.            *)
(***************************************************************************)
C9_ProcessingIffSomePending ==
    ~crashed =>
        (appStatus = "processing"
         <=> (used.generates > 0 /\ \E index \in PoseIndices : SlotPending(index)))

(***************************************************************************)
(* C10, as stated: after ResultsReady, the upload of a new model image     *)
(* alone does not yet move the phase to SourcesReady (the new garment      *)
(* image is still to come).                                                *)
(* Violated: the garment image of the previous round is still present.     *)
(***************************************************************************)
C10_SourcesReadyOnlyAfterBothNew ==
    [][\A reader \in readers :
          (RunsUpload(reader) /\ reader.index = 0 /\ appStatus = "results_ready")
          => appStatus' # "sources_ready"]_vars

(***************************************************************************)
(* C10, amended: an upload that arrives in ResultsReady replaces its own   *)
(* source image and leaves the other one.  When both source images are     *)
(* then present (the other one is the previous round's, not a new one)     *)
(* that one upload moves the phase to SourcesReady and clears the results; *)
(* when the other one is absent, phase and results stay as they are.       *)
(***************************************************************************)
C10_UploadAfterResultsReady ==
    [][\A reader \in readers :
          (RunsUpload(reader) /\ appStatus = "results_ready")
          => /\ sourceModelImage' =
                   IF reader.index = 0 THEN reader.dataUrl ELSE sourceModelImage
             /\ sourceClothingImage' =
                   IF reader.index = 1 THEN reader.dataUrl ELSE sourceClothingImage
             /\ IF sourceModelImage' # NULL /\ sourceClothingImage' # NULL
                THEN appStatus' = "sources_ready" /\ imageResults' = << >>
                ELSE appStatus' = "results_ready" /\ imageResults' = imageResults]_vars

\* an upload arrived in ResultsReady and moved the phase to SourcesReady
C10_Witness ==
    /\ lastEvent.type = "upload"
    /\ lastEvent.from = "results_ready"
    /\ appStatus = "sources_ready"
    /\ imageResults = << >>

(***************************************************************************)
(* C11: no error is fatal.  In every state in which a slot is Error, the   *)
(* user can retry that slot (its regenerate button is rendered and the     *)
(* sources regenerateImage needs are present) and can reset (a button that *)
(* dispatches RESET is rendered in the current phase).                     *)
(* Violated: while the phase is processing no reset button is rendered,    *)
(* and the phase can stay processing for good (C3).                        *)
(***************************************************************************)
C11_ErrorNeverFatal ==
    \A index \in PoseIndices :
        (~crashed /\ StatusAt(imageResults, index) = "error")
        => /\ RegenerateButtonShown(index) /\ BothSourcesPresent
           /\ ResetButtonShown

\* the same for the states in which the application is at rest: nothing in
\* flight, no file being read, no regenerate waiting
C11_ErrorNeverFatalAtRest ==
    \A index \in PoseIndices :
        (/\ ~crashed /\ StatusAt(imageResults, index) = "error"
         /\ inFlight = {} /\ readers = {} /\ scheduled = {})
        => /\ RegenerateButtonShown(index) /\ BothSourcesPresent
           /\ ResetButtonShown

(***************************************************************************)
(* C12: determinism of regeneration.  In a test with a backend (and        *)
(* canvas) stub that answers a pose always the same way and the source     *)
(* images unchanged (two files picked, one click on "Generate Style", no   *)
(* reset; cards regenerated at will, more than once and while the generate *)
(* runs), the status a regenerate finds in its slot (Done or Error) is     *)
(* the outcome class of the stub for that pose, and the status the slot    *)
(* has when the regenerate's request settles (or is rejected at once) is   *)
(* that class again: Done stays Done, Error stays Error.                   *)
(***************************************************************************)
StubClass(index) ==
    IF ~SourcesValid(sourceModelImage, sourceClothingImage) THEN "error"
    ELSE IF OutcomeFails(stub[index + 1]) THEN "error"
    ELSE "done"

\* the run is a test of regenerating: two files were picked, "Generate
\* Style" was clicked once and no reset clicked
SourcesUnchanged ==
    /\ used.uploads = 2
    /\ used.generates = 1
    /\ used.resets = 0

C12_RegenerateKeepsOutcomeClass ==
    [][SourcesUnchanged
       => /\ \A call \in scheduled :
                RunsRegenerate(call)
                => /\ call.status = StubClass(call.index)
                   /\ RequestsFor(call.index)' = {}
                      => StatusAt(imageResults', call.index) = call.status
          /\ \A chain \in inFlight :
                (chain.batch = 0 /\ inFlight' = inFlight \ {chain})
                => StatusAt(imageResults', chain.index) = StubClass(chain.index)]_vars

\* the request of a regenerate has just settled (the chain that settled
\* last was no chain of the generate), with a slot Done and a slot Error
C12_Witness ==
    /\ SourcesUnchanged
    /\ used.regenerates > 0
    /\ lastEvent.type = "settle" /\ ~lastEvent.finished
    /\ inFlight = {} /\ scheduled = {}
    /\ \E index \in PoseIndices : StatusAt(imageResults, index) = "done"
    /\ \E index \in PoseIndices : StatusAt(imageResults, index) = "error"

(***************************************************************************)
(* C13: slot lifecycle.  A result that arrives (a chain settling) finds    *)
(* its slot Pending: it never overwrites a slot that is already Done or    *)
(* Error, so a settled slot never goes directly from Done to Error, from   *)
(* Error to Done or from one Done to another.                              *)
(* Violated: with two requests in flight for one slot (C5) the second to   *)
(* settle overwrites the result of the first.                              *)
(***************************************************************************)
C13_ResultArrivesInPendingSlot ==
    [][\A chain \in inFlight :
          (inFlight' = inFlight \ {chain} /\ SlotSettled(chain.index))
          => imageResults'[chain.index + 1] = imageResults[chain.index + 1]]_vars

(***************************************************************************)
(* C14: the four chains of a generate run side by side.  In a test of one  *)
(* generate with a backend stub (two files picked, one click on "Generate  *)
(* Style", no regenerate, no reset), from the click on                     *)
(* every slot whose chain is still in flight is Pending and every other    *)
(* slot already holds the outcome of its own chain (so the four chains are *)
(* in flight before any has settled, and an outcome is written when its    *)
(* chain settles, whatever the other chains do); the phase is processing   *)
(* while a chain is in flight and results_ready once none is.  The state   *)
(* depends on which chains have settled, not on their order: the final     *)
(* state is the same for every order.                                      *)
(***************************************************************************)
ExpectedResult(index) ==
    IF ~SourcesValid(sourceModelImage, sourceClothingImage)
    THEN ErrorResult(CaughtMessage(InvalidSourceError))
    ELSE ChainResult(sourceModelImage, sourceClothingImage, index,
                     stub[index + 1].response, stub[index + 1].watermark)

C14_SettleOrderIrrelevant ==
    (~crashed /\ OneGenerate)
    => /\ Len(imageResults) = Len(POSE_PROMPTS)
       /\ \A index \in PoseIndices :
             /\ Cardinality(RequestsFor(index)) <= 1
             /\ imageResults[index + 1] =
                   IF RequestsFor(index) # {} THEN Pending ELSE ExpectedResult(index)
       /\ appStatus = IF inFlight = {} THEN "results_ready" ELSE "processing"

\* the chain of the last pose has settled while the chain of the first pose
\* is still in flight
C14_Witness ==
    /\ OneGenerate
    /\ RequestsFor(0) # {} /\ SlotPending(0)
    /\ SlotSettled(Len(POSE_PROMPTS) - 1)

(***************************************************************************)
(* C15: a regenerateImage call for a slot that is Done or Error, with both *)
(* source images present (and well-formed, so that the client sends its    *)
(* request), sets that slot to Pending and adds one request, for that      *)
(* slot; every other slot, the source images and the phase are unchanged,  *)
(* and the application keeps running.                                      *)
(* Violated: in a result array with missing slots (C8) the copy the        *)
(* reducer makes turns them into undefined, and the next render throws.    *)
(***************************************************************************)
C15_RegenerateChangesOnlyItsSlot ==
    [][\A call \in scheduled :
          (/\ RunsRegenerate(call)
           /\ SlotSettled(call.index)
           /\ BothSourcesPresent
           /\ SourcesValid(sourceModelImage, sourceClothingImage)
           /\ call.modelImage = sourceModelImage
           /\ call.clothingImage = sourceClothingImage)
          => /\ ~crashed'
             /\ UNCHANGED << appStatus, sourceModelImage, sourceClothingImage >>
             /\ Len(imageResults') = Len(imageResults)
             /\ \A other \in 1 .. Len(imageResults) :
                   other # call.index + 1 => imageResults'[other] = imageResults[other]
             /\ StatusAt(imageResults', call.index) = "pending"
             /\ \E chain \in inFlight' \ inFlight :
                   /\ chain.index = call.index
                   /\ chain.answer = NoAnswer
                   /\ inFlight' = inFlight \cup {chain}]_vars

\* the same for a result array that holds its four results
C15_RegenerateOfFourResults ==
    [][\A call \in scheduled :
          (/\ RunsRegenerate(call)
           /\ SlotSettled(call.index)
           /\ \A index \in PoseIndices : SlotSettled(index) \/ SlotPending(index)
           /\ BothSourcesPresent
           /\ SourcesValid(sourceModelImage, sourceClothingImage)
           /\ call.modelImage = sourceModelImage
           /\ call.clothingImage = sourceClothingImage)
          => /\ ~crashed'
             /\ UNCHANGED << appStatus, sourceModelImage, sourceClothingImage >>
             /\ Len(imageResults') = Len(imageResults)
             /\ \A other \in 1 .. Len(imageResults) :
                   other # call.index + 1 => imageResults'[other] = imageResults[other]
             /\ StatusAt(imageResults', call.index) = "pending"
             /\ \E chain \in inFlight' \ inFlight :
                   /\ chain.index = call.index
                   /\ chain.answer = NoAnswer
                   /\ inFlight' = inFlight \cup {chain}]_vars

(***************************************************************************)
(* C16: the application runs a generate only with both source images       *)
(* present (with a source missing no generate happens: nothing changes and *)
(* no request is sent).  A generate leaves the source images as they are,  *)
(* discards the results it finds and starts with four Pending slots in the *)
(* phase processing, one request per slot; when a source is no image data  *)
(* URL the four chains reject at once, so that the generate ends with the  *)
(* four slots Error, no request and results_ready.                         *)
(***************************************************************************)
RunsGenerate == used'.generates = used.generates + 1

C16_GenerateNeedsBothSources ==
    [][RunsGenerate
       => /\ BothSourcesPresent
          /\ UNCHANGED << sourceModelImage, sourceClothingImage >>
          /\ Len(imageResults') = Len(POSE_PROMPTS)
          /\ IF SourcesValid(sourceModelImage, sourceClothingImage)
             THEN /\ appStatus' = "processing"
                  /\ \A index \in PoseIndices :
                        /\ imageResults'[index + 1] = Pending
                        /\ Cardinality(RequestsFor(index)') =
                              Cardinality(RequestsFor(index)) + 1
             ELSE /\ appStatus' = "results_ready"
                  /\ \A index \in PoseIndices :
                        StatusAt(imageResults', index) = "error"
                  /\ inFlight' = inFlight]_vars

\* a second generate has just discarded the results of the first
C16_Witness ==
    /\ lastEvent.type = "generate"
    /\ used.generates > 1
    /\ appStatus = "processing"
    /\ \A index \in PoseIndices : SlotPending(index)

(***************************************************************************)
(* C17: no automatic retries.  Requests are sent by a call of              *)
(* processImages (one for each of the four slots) and by a regenerateImage *)
(* call that passes its guard (one, for its slot), and by nothing else: a  *)
(* result that arrives, failed or not, an upload or a reset sends none.    *)
(* (A source that is no image data URL makes the client reject before the  *)
(* request: such a call sends none, see C18.)                              *)
(***************************************************************************)
RegenerateAccepted(call) ==
    /\ call.modelImage # NULL
    /\ call.clothingImage # NULL
    /\ call.status # "pending"

C17_NoAutomaticRetry ==
    [][LET sent == {chain \in inFlight' \ inFlight : chain.answer = NoAnswer}
       IN  /\ RunsGenerate =>
                 IF SourcesValid(sourceModelImage, sourceClothingImage)
                 THEN /\ Cardinality(sent) = Len(POSE_PROMPTS)
                      /\ \A index \in PoseIndices :
                            \E chain \in sent : chain.index = index
                 ELSE sent = {}
           /\ \A call \in scheduled :
                 RunsRegenerate(call) =>
                     IF /\ RegenerateAccepted(call)
                        /\ SourcesValid(call.modelImage, call.clothingImage)
                     THEN \E chain \in sent :
                              chain.index = call.index /\ sent = {chain}
                     ELSE sent = {}
           /\ (~RunsGenerate /\ ~ \E call \in scheduled : RunsRegenerate(call))
                 => sent = {}]_vars

\* C17 as the specification words it: every generate sends four requests and
\* every accepted regenerate one, whatever the sources are
C17_AlwaysFourAndOne ==
    [][LET sent == {chain \in inFlight' \ inFlight : chain.answer = NoAnswer}
       IN  /\ (RunsGenerate /\ BothSourcesPresent)
                 => /\ Cardinality(sent) = Len(POSE_PROMPTS)
                    /\ \A index \in PoseIndices :
                          \E chain \in sent : chain.index = index
           /\ \A call \in scheduled :
                 (RunsRegenerate(call) /\ RegenerateAccepted(call))
                     => \E chain \in sent :
                            chain.index = call.index /\ sent = {chain}
           /\ (~RunsGenerate /\ ~ \E call \in scheduled : RunsRegenerate(call))
                 => sent = {}]_vars

\* a request has just failed, its slot is Error, and no request is in flight
\* for the slot
C17_Witness ==
    /\ lastEvent.type = "settle"
    /\ \E index \in PoseIndices :
          StatusAt(imageResults, index) = "error" /\ RequestsFor(index) = {}

(***************************************************************************)
(* C18: when a source is not an image data URL, a generate or an accepted  *)
(* regenerate sends no request, and every slot it was started for is Error *)
(* with a message that holds the text "Invalid data URL format. Please use *)
(* a different image."                                                     *)
(***************************************************************************)
MediaType(dataUrl) == dataUrl[2]

NotAnImage(modelImage, clothingImage) ==
    MediaType(modelImage) # "image/" \/ MediaType(clothingImage) # "image/"

InvalidEncodingReported(index) ==
    /\ StatusAt(imageResults', index) = "error"
    /\ Contains(imageResults'[index + 1].error,
                <<"Invalid data URL format. Please use a different image.">>)

C18_MalformedSourceFailsWithoutRequest ==
    [][/\ (/\ RunsGenerate
           /\ BothSourcesPresent
           /\ NotAnImage(sourceModelImage, sourceClothingImage))
          => /\ inFlight' = inFlight
             /\ \A index \in PoseIndices : InvalidEncodingReported(index)
       /\ \A call \in scheduled :
             (/\ RunsRegenerate(call)
              /\ RegenerateAccepted(call)
              /\ NotAnImage(call.modelImage, call.clothingImage))
             => /\ inFlight' = inFlight
                /\ InvalidEncodingReported(call.index)]_vars

\* a generate has just run with a source that is no image
C18_Witness ==
    /\ lastEvent.type = "generate"
    /\ BothSourcesPresent
    /\ NotAnImage(sourceModelImage, sourceClothingImage)
    /\ \A index \in PoseIndices : StatusAt(imageResults, index) = "error"

\* an accepted regenerate has just run with a source that is no image
C18_RegenerateWitness ==
    /\ lastEvent.type = "regenerate"
    /\ lastEvent.accepted
    /\ BothSourcesPresent
    /\ NotAnImage(sourceModelImage, sourceClothingImage)
    /\ inFlight = {}

(***************************************************************************)
(* C19: a source that is present becomes absent only in a reset; an upload *)
(* writes the file read into the source of its own input and leaves the    *)
(* other source as it was; every other step (generate, regenerate, result  *)
(* arrival, finish, choosing a file) leaves both sources unchanged.        *)
(***************************************************************************)
RunsReset == used'.resets = used.resets + 1

C19_SourcesChangeOnlyByUploadAndReset ==
    [][/\ (sourceModelImage # NULL /\ sourceModelImage' = NULL) => RunsReset
       /\ (sourceClothingImage # NULL /\ sourceClothingImage' = NULL) => RunsReset
       /\ \A reader \in readers :
             RunsUpload(reader)
             => IF reader.index = 0
                THEN /\ sourceModelImage' = reader.dataUrl
                     /\ sourceClothingImage' = sourceClothingImage
                ELSE /\ sourceClothingImage' = reader.dataUrl
                     /\ sourceModelImage' = sourceModelImage
       /\ (~RunsReset /\ ~ \E reader \in readers : RunsUpload(reader))
             => /\ sourceModelImage' = sourceModelImage
                /\ sourceClothingImage' = sourceClothingImage]_vars

\* an upload has just replaced one of two sources that were both present
C19_Witness ==
    /\ lastEvent.type = "upload"
    /\ lastEvent.from = "sources_ready"
    /\ BothSourcesPresent
    /\ sourceModelImage # sourceClothingImage

(***************************************************************************)
(* C20: a click on "Download All" sets up exactly one download for each    *)
(* slot that is Done with a URL at that moment and none for a slot that is *)
(* Error or Pending; the downloads of one click happen in ascending slot   *)
(* order, each at most once, with the URL the slot held and a file name    *)
(* that carries the slot number index + 1; a single download happens for a *)
(* Done slot only (no other card has the button) and downloads one file,   *)
(* with the slot's URL and name.                                           *)
(***************************************************************************)
SlotFileNames ==
    << << "fashion-studio-pose-", "1", ".png" >>,
       << "fashion-studio-pose-", "2", ".png" >>,
       << "fashion-studio-pose-", "3", ".png" >>,
       << "fashion-studio-pose-", "4", ".png" >> >>

SlotDoneWithUrl(index) ==
    /\ StatusAt(imageResults, index) = "done"
    /\ imageResults[index + 1].url # << >>

\* the downloads of one click that are still to come are for later slots
\* than the one just made, and every file is named by its slot number
DownloadsInOrder ==
    /\ \A timer \in timers : \A i \in DOMAIN downloads :
          downloads[i].click = timer.click => downloads[i].index < timer.index
    /\ \A i \in DOMAIN downloads :
          downloads[i].download = SlotFileNames[downloads[i].index + 1]

C20_DownloadsMatchDoneSlots ==
    [][/\ (clicks' = clicks + 1 /\ lastEvent'.type = "downloadAll")
          => /\ downloads' = << >>
             /\ timers \subseteq timers'
             /\ \A index \in PoseIndices :
                   Cardinality({timer \in timers' \ timers : timer.index = index})
                       = IF SlotDoneWithUrl(index) THEN 1 ELSE 0
             /\ \A timer \in timers' \ timers :
                   /\ timer.index \in PoseIndices
                   /\ timer.href = imageResults[timer.index + 1].url
       /\ (clicks' = clicks + 1 /\ lastEvent'.type = "download")
          => /\ timers' = timers
             /\ SlotDoneWithUrl(lastEvent'.index)
             /\ Len(downloads') = 1
             /\ downloads'[1].index = lastEvent'.index
             /\ downloads'[1].href = imageResults[lastEvent'.index + 1].url
       /\ clicks' = clicks
          => \/ timers' = timers /\ downloads' = << >>
             \/ \E timer \in timers :
                   /\ timers' = timers \ {timer}
                   /\ Len(downloads') = 1
                   /\ downloads'[1].click = timer.click
                   /\ downloads'[1].index = timer.index
                   /\ downloads'[1].href = timer.href
       /\ DownloadsInOrder']_vars

\* "Download All" was clicked on results of which some are Done and some
\* Error, and the last of its downloads has just happened
C20_Witness ==
    /\ lastEvent.type = "downloadAll"
    /\ timers = {}
    /\ \E index \in PoseIndices : StatusAt(imageResults, index) = "error"
    /\ Cardinality({index \in PoseIndices : SlotDoneWithUrl(index)}) >= 2
    /\ Len(downloads) = 1
    /\ downloads[1].click = clicks
    /\ SlotDoneWithUrl(downloads[1].index)
    /\ \A index \in PoseIndices :
          SlotDoneWithUrl(index) => index <= downloads[1].index

\* the download button of a card has just been clicked
C20_SingleDownload ==
    /\ lastEvent.type = "download"
    /\ Len(downloads) = 1
    /\ downloads[1].index = lastEvent.index

(***************************************************************************)
(* C21: the result sequence is empty or holds exactly four entries, each   *)
(* Pending, Done or Error, with no entry missing; and it is empty whenever *)
(* the phase is idle or sources_ready.                                     *)
(* Violated: an upload that lands while a generate is in flight empties    *)
(* the results and sets sources_ready; the results of the requests in      *)
(* flight are then written into the emptied array at their own index,      *)
(* which leaves it non-empty in sources_ready, shorter than four, and with *)
(* positions that hold no entry.                                           *)
(***************************************************************************)
C21_ResultsEmptyOrFourEntries ==
    /\ \/ imageResults = << >>
       \/ /\ Len(imageResults) = Len(POSE_PROMPTS)
          /\ \A index \in PoseIndices :
                StatusAt(imageResults, index) \in {"pending", "done", "error"}
    /\ appStatus \in {"idle", "sources_ready"} => imageResults = << >>

(***************************************************************************)
(* C22: whenever the phase is processing or results_ready both source      *)
(* images are present, and FINISH_PROCESSING moves the phase to            *)
(* results_ready from processing only, never from idle or sources_ready.   *)
(* (A generate whose chains all reject at once dispatches START_PROCESSING *)
(* and FINISH_PROCESSING in one task: the phase passes through processing  *)
(* inside that step.)                                                      *)
(* Violated: FINISH_PROCESSING tests the results only, not the phase.      *)
(* After an upload has landed during a generate (sources_ready) and        *)
(* "Change Photos" has reset the state (idle, no sources), the four        *)
(* results are written into the emptied array and FINISH_PROCESSING sets   *)
(* results_ready from idle, with both sources absent.                      *)
(***************************************************************************)
C22_ResultsPhasesHaveSources ==
    [][/\ appStatus' \in {"processing", "results_ready"}
             => (sourceModelImage' # NULL /\ sourceClothingImage' # NULL)
       /\ (~RunsGenerate /\ appStatus' = "results_ready" /\ appStatus # "results_ready")
             => appStatus = "processing"]_vars

(***************************************************************************)
(* C23: a result is written into a slot only by the most recent request    *)
(* issued for the slot, made with the source images the state holds: when  *)
(* the result of a request is written, the request carries the two sources *)
(* of the state, and the slot is Pending, waiting for it (a reset or an    *)
(* upload since would have emptied the results, and the result of a newer  *)
(* request would have settled the slot).                                   *)
(* Violated: no request is cancelled and UPDATE_RESULT carries the index   *)
(* only.  A request issued before "Start Over" has its result written into *)
(* the state after the reset, when the state holds no sources and no       *)
(* results; of two requests in flight for one slot both are written.       *)
(***************************************************************************)
C23_OnlyCurrentRequestWrites ==
    [][\A chain \in inFlight :
          inFlight' = inFlight \ {chain}
          => /\ chain.modelImage = sourceModelImage
             /\ chain.clothingImage = sourceClothingImage
             /\ SlotPending(chain.index)]_vars

=============================================================================
